---------------------------- MODULE Spec2Model ----------------------------
(***************************************************************************)
(* Model of gen_all_trees.py: the snapshot driver that walks the commits   *)
(* of a branch, hard-resets the working tree to each of them, runs the     *)
(* external tree tool and finally checks out the branch it started from.   *)
(*                                                                         *)
(* Strings are sequences of one-character strings, so that strip, split,   *)
(* re.sub and the f-string formatting are computed as the code computes    *)
(* them.  git and tree_mine.exe are the environment: their exit status is  *)
(* a nondeterministic choice, their effect on the repository follows git.  *)
(***************************************************************************)
EXTENDS Integers, Sequences, FiniteSets, TLC

\* Largest number of commits on the branch that is walked.
MaxCommits == 3

\* Longest description, and largest line number of the log output, that the
\* checks of the parsing and naming functions draw their inputs from.
MaxLen == 2
MaxLine == 101

(***************************************************************************)
(* Strings                                                                 *)
(***************************************************************************)
\* Python's None, as returned by run_command on failure: no string equals it.
NoneVal == <<"None">>

\* Python truthiness of a run_command result ("if not output").
Truthy(v) == v # NoneVal /\ v # <<>>

IsSpace(c) == c \in {" ", "\n", "\t"}

RECURSIVE LStrip(_)
LStrip(s) == IF s # <<>> /\ IsSpace(Head(s)) THEN LStrip(Tail(s)) ELSE s

RECURSIVE RStrip(_)
RStrip(s) ==
    IF s # <<>> /\ IsSpace(s[Len(s)]) THEN RStrip(SubSeq(s, 1, Len(s) - 1)) ELSE s

\* str.strip()
Strip(s) == RStrip(LStrip(s))

\* Position of the first occurrence of sep in s, 0 when there is none.
FirstIndex(s, sep) ==
    IF \E i \in 1..Len(s) : s[i] = sep
    THEN CHOOSE i \in 1..Len(s) : s[i] = sep /\ \A j \in 1..(i - 1) : s[j] # sep
    ELSE 0

\* str.split(sep): every segment, empty ones included.
RECURSIVE Split(_, _)
Split(s, sep) ==
    LET i == FirstIndex(s, sep)
    IN  IF i = 0 THEN <<s>>
        ELSE <<SubSeq(s, 1, i - 1)>> \o Split(SubSeq(s, i + 1, Len(s)), sep)

\* str.split(sep, 1): at most one split, at the first sep.
SplitOnce(s, sep) ==
    LET i == FirstIndex(s, sep)
    IN  IF i = 0 THEN <<s>>
        ELSE <<SubSeq(s, 1, i - 1), SubSeq(s, i + 1, Len(s))>>

Digits == <<"0", "1", "2", "3", "4", "5", "6", "7", "8", "9">>

\* str(n) for a natural number.
RECURSIVE Decimal(_)
Decimal(n) ==
    IF n < 10 THEN <<Digits[n + 1]>>
    ELSE Decimal(n \div 10) \o <<Digits[(n % 10) + 1]>>

\* Mutant of Format02d: exactly two digits, the last two of the number.
Format02dLastTwo(n) == <<Digits[((n \div 10) % 10) + 1], Digits[(n % 10) + 1]>>

\* f"{n:02d}": padded with zeros to a width of at least two.
Format02d(n) == IF n < 10 THEN <<"0">> \o Decimal(n) ELSE Decimal(n)

\* The character class of the re.sub in get_branch_commits.
UnsafeChars == {"<", ">", ":", "\"", "/", "\\", "|", "?", "*"}

\* Mutant of Sanitize: the backslash of the class is lost ('[<>:"/\|?*]').
SanitizeNoBackslash(description) ==
    [k \in 1..Len(description) |->
        IF description[k] \in UnsafeChars \ {"\\"} THEN "_" ELSE description[k]]

\* re.sub(r'[<>:"/\\|?*]', '_', description)
Sanitize(description) ==
    [k \in 1..Len(description) |->
        IF description[k] \in UnsafeChars THEN "_" ELSE description[k]]

(***************************************************************************)
(* run_command and get_branch_commits                                      *)
(***************************************************************************)
\* run_command(cmd) with capture_output: None on a nonzero return code,
\* the stripped standard output otherwise.
run_command(ok, stdout) == IF ~ok THEN NoneVal ELSE Strip(stdout)

\* The record built from line number k (1-based) of the log output.
CommitRecord(line, k) ==
    LET parts == SplitOnce(line, " ")
    IN  [id |-> parts[1],
         description |-> parts[2],
         safe_description |-> Sanitize(parts[2]),
         index |-> k]          \* enumerate's i is k - 1, the index is i + 1

RECURSIVE ParseLines(_, _)
ParseLines(lines, k) ==
    IF k > Len(lines) THEN <<>>
    ELSE (IF Strip(lines[k]) # <<>> /\ Len(SplitOnce(lines[k], " ")) >= 2
          THEN <<CommitRecord(lines[k], k)>>
          ELSE <<>>) \o ParseLines(lines, k + 1)

\* get_branch_commits, given what run_command returned for the git log.
get_branch_commits(output) ==
    IF ~Truthy(output) THEN <<>> ELSE ParseLines(Split(output, "\n"), 1)

\* Mutant of OutputFilename: the description is used as it is, not the
\* sanitized one.
OutputFilenameRawDescription(commit_info) ==
    Format02d(commit_info.index) \o <<"_">> \o commit_info.description
        \o <<".", "t", "x", "t">>

\* Mutant of OutputFilename: the index is not padded ("{index}_...").
OutputFilenameUnpadded(commit_info) ==
    Decimal(commit_info.index) \o <<"_">> \o commit_info.safe_description
        \o <<".", "t", "x", "t">>

\* output_filename of generate_tree_for_commit.
OutputFilename(commit_info) ==
    Format02d(commit_info.index) \o <<"_">> \o commit_info.safe_description
        \o <<".", "t", "x", "t">>


(***************************************************************************)
(* The environment: the repository and the two external programs           *)
(***************************************************************************)
MAIN == <<"m", "a", "i", "n">>
DEV == <<"d", "e", "v">>
STUDY == <<"s", "t", "u", "d", "y">>
\* HEAD names no branch (git branch --show-current prints nothing).
DETACHED == <<>>

\* args.branch, args.output_dir: the defaults of parse_arguments.
ArgBranch == MAIN
ArgOutputDir == <<"t", "r", "e", "e">>

FixBug == <<"F", "i", "x", " ", "b", "u", "g">>
AddFeature ==
    <<"A", "d", "d", ":", " ", "f", "e", "a", "t", "u", "r", "e", "/", "x">>

\* The commits histories are cut from, oldest first: abbreviated hash and
\* subject line.  Two share a subject; one has an empty commit message.
CommitChain ==
    << [id |-> <<"a", "1", "b", "2", "c", "3">>, subject |-> FixBug],
       [id |-> <<"d", "4", "e", "5", "f", "6">>, subject |-> AddFeature],
       [id |-> <<"9", "9", "f", "f">>, subject |-> FixBug],
       [id |-> <<"0", "7", "e", "e">>, subject |-> <<>>],
       [id |-> <<"5", "c", "0", "d">>, subject |-> <<"W", "I", "P", "?">>] >>

\* Histories of the walked branch, oldest first: no commit (the branch does
\* not exist) or up to MaxCommits consecutive commits of the chain.
Histories ==
    {<<>>} \cup
    { h \in { SubSeq(CommitChain, a, b) : a, b \in 1..Len(CommitChain) } :
        Len(h) <= MaxCommits }

\* Standard output of "git log <branch> --oneline --reverse": one line per
\* commit, "<hash> <subject>", each ended by a newline.
RECURSIVE GitLogOneline(_)
GitLogOneline(h) ==
    IF h = <<>> THEN <<>>
    ELSE Head(h).id \o <<" ">> \o Head(h).subject \o <<"\n">>
            \o GitLogOneline(Tail(h))

\* Standard output of "git status", "git reset --hard" and "git checkout".
GitText == <<"o", "k", "\n">>

\* Standard output of "git branch --show-current".
ShowCurrent(h) == IF h = DETACHED THEN <<>> ELSE h \o <<"\n">>

\* What tree_mine.exe may print: nothing, or some text.
ToolOutputs == { <<>>, <<"t", "r", "e", "e", "\n">> }

VARIABLES
    pc,              \* position of main()
    history,         \* the commits of the walked branch, oldest first
    head,            \* the branch HEAD names, DETACHED when none
    refs,            \* branch name -> the commit it points to (0: a commit
                     \*   outside the walked branch, k: history[k])
    worktree,        \* the commit the working tree is at
    startHead,       \* head and refs before the run
    startRefs,
    startOutdirExists, \* whether the output directory existed before the run
    outdirExists,    \* os.path.exists(output_dir)
    files,           \* names of the files in the output directory
    cmds,            \* every command and call issued, with what it returned
    current_branch,  \* main's local
    commits,         \* main's local
    pos,             \* position of the for loop in commits (1-based)
    success_count,   \* main's local
    summary,         \* <<success_count, len(commits)>> once printed
    raised,          \* the exception that ended the try block
    exitStatus,      \* the process's exit status, -1 while it runs
    pure             \* inputs and results of get_branch_commits' parsing and
                     \*   of the file naming, when they are run on their own

vars ==
    <<pc, history, head, refs, worktree, startHead, startRefs,
      startOutdirExists, outdirExists,
      files, cmds, current_branch, commits, pos, success_count, summary,
      raised, exitStatus, pure>>

envVars == <<history, startHead, startRefs, startOutdirExists, pure>>
gitVars == <<head, refs, worktree>>
loopVars == <<commits, pos, success_count, summary>>

Log(cmd, arg, out) == Append(cmds, [cmd |-> cmd, arg |-> arg, out |-> out])

\* The commit the working tree was at before the run.
StartWorktree == IF startHead = DETACHED THEN 0 ELSE startRefs[startHead]

Init ==
    /\ pc = "check_git"
    /\ history \in Histories
    /\ \E studyExists \in BOOLEAN :
          refs = [b \in ((IF history # <<>> THEN {ArgBranch} ELSE {}) \cup {DEV}
                          \cup (IF studyExists THEN {STUDY} ELSE {})) |->
                    IF b = ArgBranch THEN Len(history) ELSE 0]
    /\ head \in (DOMAIN refs \ {STUDY}) \cup {DETACHED}
    /\ startHead = head
    /\ startRefs = refs
    /\ worktree = StartWorktree
    /\ outdirExists \in BOOLEAN
    /\ startOutdirExists = outdirExists
    /\ files = {}
    /\ cmds = <<>>
    /\ current_branch = NoneVal
    /\ commits = <<>>
    /\ pos = 0
    /\ success_count = 0
    /\ summary = <<>>
    /\ raised = "none"
    /\ exitStatus = -1
    /\ pure = <<>>

(***************************************************************************)
(* git's effect on the repository                                          *)
(***************************************************************************)
\* The position in the history of the commit with hash id, 0 if none.
Resolve(id) ==
    IF \E k \in 1..Len(history) : history[k].id = id
    THEN CHOOSE k \in 1..Len(history) : history[k].id = id
    ELSE 0

\* "git reset --hard <id>" when it succeeds: the working tree moves to the
\* commit, and so does the branch HEAD names, if it names one.
GitResetHard(id) ==
    /\ worktree' = Resolve(id)
    /\ refs' = IF head = DETACHED THEN refs
               ELSE [refs EXCEPT ![head] = Resolve(id)]
    /\ UNCHANGED head

\* "git checkout <branch>" when it succeeds: HEAD names the branch and the
\* working tree is at the commit the branch points to.
GitCheckout(branch) ==
    /\ head' = branch
    /\ worktree' = refs[branch]
    /\ UNCHANGED refs

(***************************************************************************)
(* main(): validation                                                      *)
(***************************************************************************)
\* if not run_command("git status"): sys.exit(1)
CheckGitRepo ==
    /\ pc = "check_git"
    /\ \E ok \in BOOLEAN :
          LET r == run_command(ok, GitText)
          IN  /\ cmds' = Log("git status", <<>>, r)
              /\ IF ~Truthy(r)
                 THEN pc' = "done" /\ exitStatus' = 1
                 ELSE pc' = "check_tool" /\ UNCHANGED exitStatus
    /\ UNCHANGED <<envVars, gitVars, loopVars, outdirExists, files,
                   current_branch, raised>>

\* Mutant of CheckTreeTool: the check sits inside the try block, so a failure
\* goes through the finally block.
CheckTreeToolInsideTry ==
    /\ pc = "check_tool"
    /\ \E ok \in BOOLEAN, out \in ToolOutputs :
          LET r == run_command(ok, out)
          IN  /\ cmds' = Log("tree_mine.exe --help", <<>>, r)
              /\ IF ~Truthy(r)
                 THEN pc' = "restore" /\ raised' = "SystemExit"
                 ELSE pc' = "save_branch" /\ UNCHANGED raised
    /\ UNCHANGED <<envVars, gitVars, loopVars, outdirExists, files,
                   current_branch, exitStatus>>

\* if not run_command("tree_mine.exe --help"): sys.exit(1)
CheckTreeTool ==
    /\ pc = "check_tool"
    /\ \E ok \in BOOLEAN, out \in ToolOutputs :
          LET r == run_command(ok, out)
          IN  /\ cmds' = Log("tree_mine.exe --help", <<>>, r)
              /\ IF ~Truthy(r)
                 THEN pc' = "done" /\ exitStatus' = 1
                 ELSE pc' = "save_branch" /\ UNCHANGED exitStatus
    /\ UNCHANGED <<envVars, gitVars, loopVars, outdirExists, files,
                   current_branch, raised>>

\* current_branch = run_command("git branch --show-current")
SaveCurrentBranch ==
    /\ pc = "save_branch"
    /\ \E ok \in BOOLEAN :
          LET r == run_command(ok, ShowCurrent(head))
          IN  /\ cmds' = Log("git branch --show-current", <<>>, r)
              /\ current_branch' = r
    /\ pc' = "fetch"
    /\ UNCHANGED <<envVars, gitVars, loopVars, outdirExists, files, raised,
                   exitStatus>>

(***************************************************************************)
(* main(): the try block                                                   *)
(***************************************************************************)
\* Mutant of FetchCommits: the test for an empty list never fires.
FetchCommitsNoEmptyCheck ==
    /\ pc = "fetch"
    /\ \E ok \in {FALSE} \cup {b \in {TRUE} : ArgBranch \in DOMAIN refs} :
          LET r == run_command(ok, GitLogOneline(history))
          IN  /\ cmds' = Log("git log", ArgBranch, r)
              /\ commits' = get_branch_commits(r)
    /\ pc' = "mkdir"
    /\ UNCHANGED <<envVars, gitVars, pos, success_count, summary,
                   outdirExists, files, current_branch, raised, exitStatus>>

\* commits = get_branch_commits(args.branch); sys.exit(1) when there are none.
\* git log fails when the branch does not exist, and may fail when it does.
FetchCommits ==
    /\ pc = "fetch"
    /\ \E ok \in {FALSE} \cup {b \in {TRUE} : ArgBranch \in DOMAIN refs} :
          LET r == run_command(ok, GitLogOneline(history))
          IN  /\ cmds' = Log("git log", ArgBranch, r)
              /\ commits' = get_branch_commits(r)
    /\ IF commits' = <<>>
       THEN pc' = "restore" /\ raised' = "SystemExit"
       ELSE pc' = "mkdir" /\ UNCHANGED raised
    /\ UNCHANGED <<envVars, gitVars, pos, success_count, summary,
                   outdirExists, files, current_branch, exitStatus>>

\* tree_dir = create_output_directory(args.output_dir); success_count = 0;
\* the for loop starts at the first commit.
CreateOutputDirectory ==
    /\ pc = "mkdir"
    /\ cmds' = Log("create_output_directory", ArgOutputDir, NoneVal)
    /\ outdirExists' = TRUE
    /\ success_count' = 0
    /\ pos' = 1
    /\ pc' = "reset"
    /\ UNCHANGED <<envVars, gitVars, commits, summary, files, current_branch,
                   raised, exitStatus>>

\* The for loop after generate_tree_for_commit returned: the next commit, or
\* the statement after the loop.
AfterCommit(p) == IF p < Len(commits) THEN "reset" ELSE "summary"

\* Mutant of ResetToCommit: the "return False" after a failed reset is
\* missing, so the tree tool runs whatever the reset did.
ResetToCommitNoReturn ==
    /\ pc = "reset"
    /\ \E ok \in BOOLEAN :
          LET id == commits[pos].id
              r == run_command(ok, GitText)
          IN  /\ cmds' = Log("git reset --hard", id, r)
              /\ IF ~Truthy(r) THEN UNCHANGED gitVars ELSE GitResetHard(id)
    /\ pc' = "tree"
    /\ UNCHANGED <<envVars, commits, pos, success_count, summary, outdirExists,
                   files, current_branch, raised, exitStatus>>

\* generate_tree_for_commit, first half: git reset --hard <id>; return False
\* when it failed.
ResetToCommit ==
    /\ pc = "reset"
    /\ \E ok \in BOOLEAN :
          LET id == commits[pos].id
              r == run_command(ok, GitText)
          IN  /\ cmds' = Log("git reset --hard", id, r)
              /\ IF ~Truthy(r)
                 THEN /\ pc' = AfterCommit(pos)
                      /\ pos' = pos + 1
                      /\ UNCHANGED gitVars
                 ELSE /\ pc' = "tree"
                      /\ GitResetHard(id)
                      /\ UNCHANGED pos
    /\ UNCHANGED <<envVars, commits, success_count, summary, outdirExists,
                   files, current_branch, raised, exitStatus>>

\* Mutant of TreeSucceeded: "if result:" in place of "if result is not None".
TreeSucceededTruthy(result) == Truthy(result)

\* Mutant of TreeSucceeded: a missing output file makes the commit fail.
TreeSucceededIfFile(result) ==
    result # NoneVal /\ OutputFilename(commits[pos]) \in files'

\* Mutant of TreeSucceeded: the result of the tool is not looked at.
TreeSucceededAlways(result) == TRUE

\* Whether generate_tree_for_commit returns True, given run_command's result
\* for the tree tool.
TreeSucceeded(result) == result # NoneVal

\* generate_tree_for_commit, second half: tree_mine.exe ... --to "<path>";
\* the loop counts the commit when it returned True.  Whether a tool that
\* ended with return code 0 wrote its output file is the tool's business; a
\* tool that failed is taken to have written nothing.
RunTreeTool ==
    /\ pc = "tree"
    /\ \E ok \in BOOLEAN, out \in ToolOutputs, wrote \in BOOLEAN :
          LET name == OutputFilename(commits[pos])
              result == run_command(ok, out)
          IN  /\ ok \/ (~wrote /\ out = <<>>)
              /\ cmds' = Log("tree_mine.exe", name, result)
              /\ files' = IF wrote THEN files \cup {name} ELSE files
              /\ success_count' = IF TreeSucceeded(result)
                                  THEN success_count + 1 ELSE success_count
    /\ pc' = AfterCommit(pos)
    /\ pos' = pos + 1
    /\ UNCHANGED <<envVars, gitVars, commits, summary, outdirExists,
                   current_branch, raised, exitStatus>>

\* print(f"完成! 成功处理 {success_count}/{len(commits)} 个commit")
PrintSummary ==
    /\ pc = "summary"
    /\ summary' = <<success_count, Len(commits)>>
    /\ pc' = "restore"
    /\ UNCHANGED <<envVars, gitVars, commits, pos, success_count,
                   outdirExists, files, cmds, current_branch, raised,
                   exitStatus>>

\* Mutant of KeyboardInterrupt: the restoration is not in a finally block, so
\* an interrupt ends main() without it.
KeyboardInterruptNoFinally ==
    /\ pc \in {"fetch", "mkdir", "reset", "tree", "summary"}
    /\ raised' = "KeyboardInterrupt"
    /\ pc' = "done"
    /\ exitStatus' = 0
    /\ UNCHANGED <<envVars, gitVars, loopVars, outdirExists, files, cmds,
                   current_branch>>

\* Ctrl-C while the try block runs: except KeyboardInterrupt.
KeyboardInterrupt ==
    /\ pc \in {"fetch", "mkdir", "reset", "tree", "summary"}
    /\ raised' = "KeyboardInterrupt"
    /\ pc' = "restore"
    /\ UNCHANGED <<envVars, gitVars, loopVars, outdirExists, files, cmds,
                   current_branch, exitStatus>>

\* An exception of the try block (os.makedirs, print, ...): except Exception.
RaiseException ==
    /\ pc \in {"mkdir", "reset", "tree", "summary"}
    /\ raised' = "Exception"
    /\ pc' = "restore"
    /\ UNCHANGED <<envVars, gitVars, loopVars, outdirExists, files, cmds,
                   current_branch, exitStatus>>

(***************************************************************************)
(* main(): the finally block                                               *)
(***************************************************************************)
\* Mutant of RestoreTarget: "if current_branch is not None", so an empty
\* name is checked out.
RestoreTargetIsNotNone(branch) == IF branch # NoneVal THEN branch ELSE STUDY

\* The branch the finally block checks out.
RestoreTarget(branch) == IF Truthy(branch) THEN branch ELSE STUDY

\* Mutant of ExitStatusAfter: a caught exception also ends with status 1.
ExitStatusAfterAnyException(exc) == IF exc # "none" THEN 1 ELSE 0

\* The exit status once the finally block is over: SystemExit(1) is no
\* Exception and goes on after the finally block; everything else was caught.
ExitStatusAfter(exc) == IF exc = "SystemExit" THEN 1 ELSE 0

\* finally: git checkout <current_branch or study>; its result is ignored.
\* The checkout fails when the branch does not exist, and may fail when it
\* does.
RestoreBranch ==
    /\ pc = "restore"
    /\ LET target == RestoreTarget(current_branch)
       IN  \E ok \in {FALSE} \cup {b \in {TRUE} : target \in DOMAIN refs} :
              /\ cmds' = Log("git checkout", target, run_command(ok, GitText))
              /\ IF ok THEN GitCheckout(target) ELSE UNCHANGED gitVars
    /\ exitStatus' = ExitStatusAfter(raised)
    /\ pc' = "done"
    /\ UNCHANGED <<envVars, loopVars, outdirExists, files, current_branch,
                   raised>>

Next ==
    \/ CheckGitRepo
    \/ CheckTreeTool
    \/ SaveCurrentBranch
    \/ FetchCommits
    \/ CreateOutputDirectory
    \/ ResetToCommit
    \/ RunTreeTool
    \/ PrintSummary
    \/ KeyboardInterrupt
    \/ RaiseException
    \/ RestoreBranch

Spec == Init /\ [][Next]_vars

(***************************************************************************)
(* The parsing of a log line and the file naming, run on their own         *)
(***************************************************************************)
\* The characters descriptions are made of: the nine of the re.sub class, a
\* letter, a digit, a space and the underscore.
PureAlphabet == UnsafeChars \cup {"a", "1", " ", "_"}

\* Descriptions: every string of up to MaxLen characters, and two longer ones.
Texts ==
    UNION { [1..n -> PureAlphabet] : n \in 0..MaxLen } \cup {FixBug, AddFeature}

\* Line numbers (1-based) of the log output: one, two and three digits.
PureLines == {k \in 1..MaxLine : k <= 2 \/ k \in {10, 11} \/ k >= MaxLine - 1}

\* A log output of k lines "<hash> <text>".
PureLog(k, text) == [j \in 1..k |-> <<"a", "1", "b", "2", "c", "3", " ">> \o text]

\* The records and the file names of the lines from number k on (the one
\* line k), as get_branch_commits and generate_tree_for_commit build them.
PureRecords(k, text) == ParseLines(PureLog(k, text), k)
PureNames(recs) == [j \in 1..Len(recs) |-> OutputFilename(recs[j])]

PureInit ==
    /\ pc = "pure"
    /\ \E k \in PureLines, text \in Texts :
          pure = [k |-> k, text |-> text, recs |-> <<>>, names |-> <<>>,
                  again |-> <<>>]
    /\ history = <<>>
    /\ refs = [b \in {DEV} |-> 0]
    /\ head = DEV
    /\ startHead = head
    /\ startRefs = refs
    /\ worktree = 0
    /\ outdirExists = FALSE
    /\ startOutdirExists = FALSE
    /\ files = {}
    /\ cmds = <<>>
    /\ current_branch = NoneVal
    /\ commits = <<>>
    /\ pos = 0
    /\ success_count = 0
    /\ summary = <<>>
    /\ raised = "none"
    /\ exitStatus = -1

pureFrame ==
    <<pc, history, head, refs, worktree, startHead, startRefs,
      startOutdirExists, outdirExists, files, cmds, current_branch, commits,
      pos, success_count, summary, raised, exitStatus>>

\* Line pure.k is parsed into a record and its file name is computed.
PureParse ==
    /\ pc = "pure"
    /\ pure.recs = <<>>
    /\ LET recs == PureRecords(pure.k, pure.text)
       IN  pure' = [pure EXCEPT !.recs = recs, !.names = PureNames(recs)]
    /\ UNCHANGED pureFrame

\* The re.sub is applied to its own result.
PureResanitize ==
    /\ pc = "pure"
    /\ Len(pure.recs) = 1
    /\ pure.again = <<>>
    /\ pure' = [pure EXCEPT !.again = <<Sanitize(pure.recs[1].safe_description)>>]
    /\ UNCHANGED pureFrame

\* Another line of the same output is parsed and named: the same description
\* or another one, at another line number.
PureParseOther ==
    /\ pc = "pure"
    /\ Len(pure.recs) = 1
    /\ pure.again = <<>>
    /\ \E k2 \in PureLines \ {pure.k},
          text2 \in {pure.text, AddFeature, <<"1", "_">> \o pure.text,
                     <<"_">> \o pure.text} :
          LET recs == pure.recs \o PureRecords(k2, text2)
          IN  pure' = [pure EXCEPT !.recs = recs, !.names = PureNames(recs)]
    /\ UNCHANGED pureFrame

PureNext ==
    \/ PureParse
    \/ PureResanitize
    \/ PureParseOther

PureSpec == PureInit /\ [][PureNext]_vars

(***************************************************************************)
(* What a run issued, read from the log of commands                        *)
(***************************************************************************)
Issued(c) == {k \in 1..Len(cmds) : cmds[k].cmd = c}

\* The repository check, the tool check failed (as main() tests them).
StatusCheckFailed == \E k \in Issued("git status") : ~Truthy(cmds[k].out)
HelpCheckFailed == \E k \in Issued("tree_mine.exe --help") : ~Truthy(cmds[k].out)

\* Validation is over: the run reached the statement before the try block.
PastValidation == Issued("git branch --show-current") # {}

\* The history was fetched and holds no record / at least one record.
ZeroCommits == Issued("git log") # {} /\ commits = <<>>
SomeCommits == Issued("git log") # {} /\ commits # <<>>

\* Commands that moved or read the working tree for a commit.
PerCommit == Issued("git reset --hard") \cup Issued("tree_mine.exe")

\* Per-commit commands that ended with a nonzero return code.
Failures == {k \in PerCommit : cmds[k].out = NoneVal}

\* Tree-tool invocations that ended with return code 0.
ToolSuccesses == {k \in Issued("tree_mine.exe") : cmds[k].out # NoneVal}

ResetCmds == SelectSeq(cmds, LAMBDA c : c.cmd = "git reset --hard")

(***************************************************************************)
(* Claims                                                                  *)
(***************************************************************************)

\* C1: for every run that gets past validation, however it ends, the branch
\* checked out when the process ends is the branch that was checked out
\* before the run, the start with no branch included.
C1_RestorationPostcondition ==
    (pc = "done" /\ PastValidation) => head = startHead

\* C2: when the run ends, the working tree is at the restore target and not
\* pinned to a commit a git reset --hard moved to: once the restoring
\* checkout has succeeded, the branch that was restored points to the commit
\* it pointed to before the run, and the working tree is at that commit.
C2_BranchNotPinned ==
    (/\ pc = "done"
     /\ Issued("git checkout") # {}
     /\ cmds[Len(cmds)].out # NoneVal) =>
        /\ head = RestoreTarget(current_branch)
        /\ refs[head] = startRefs[head]
        /\ worktree = startRefs[head]

\* C3: a KeyboardInterrupt during the commit loop is caught, the restoration
\* checkout is then executed, and the process exits with a non-zero status.
C3_InterruptExitsNonZero ==
    (pc = "done" /\ raised = "KeyboardInterrupt" /\ pos >= 1) =>
        /\ cmds[Len(cmds)].cmd = "git checkout"
        /\ exitStatus # 0

\* C4: once get_branch_commits returned a non-empty list, every way main()
\* ends has executed the restoration checkout exactly once, after the last
\* git reset --hard and the last tree-tool invocation; no checkout is issued
\* before main() is at its end.
C4_RestoreExactlyOnceAndLast ==
    /\ (pc = "done" /\ SomeCommits) =>
          /\ Cardinality(Issued("git checkout")) = 1
          /\ \A k \in Issued("git checkout") :
                /\ k = Len(cmds)
                /\ \A j \in PerCommit : j < k
    /\ pc # "done" => Issued("git checkout") = {}

\* C4 witness: a run interrupted after a reset and a tree-tool invocation
\* ended with the checkout as its last command.
C4_Witness ==
    /\ pc = "done"
    /\ SomeCommits
    /\ raised = "KeyboardInterrupt"
    /\ Issued("tree_mine.exe") # {}
    /\ cmds[Len(cmds)].cmd = "git checkout"

\* C5: the exit status is 0 when the loop ran to its end, whatever the number
\* of per-commit failures; it is 1 exactly when the repository check failed,
\* the tool check failed or the branch yielded zero commits.
C5_ExitStatus ==
    pc = "done" =>
        /\ exitStatus \in {0, 1}
        /\ exitStatus = 1 <=> (StatusCheckFailed \/ HelpCheckFailed \/ ZeroCommits)
        /\ summary # <<>> => exitStatus = 0

\* C5 witness: the loop ran to its end with every commit failed, and the
\* process exited.
C5_Witness ==
    /\ pc = "done"
    /\ summary # <<>>
    /\ summary[1] = 0
    /\ Cardinality(Failures) = Len(commits)
    /\ Len(commits) >= 2

\* C6: git status is checked first and tree_mine.exe --help second; when
\* either check fails main() exits non-zero having issued nothing else: no
\* checkout, no reset, no history fetch, no output directory, no snapshot,
\* and after a failed repository check not even the tool check.
C6_ValidationAborts ==
    /\ \A k \in Issued("git status") : k = 1
    /\ \A k \in Issued("tree_mine.exe --help") : k = 2 /\ Truthy(cmds[1].out)
    /\ cmds # <<>> => cmds[1].cmd = "git status"
    /\ Len(cmds) >= 2 => cmds[2].cmd = "tree_mine.exe --help"
    /\ StatusCheckFailed => (pc = "done" /\ exitStatus # 0 /\ Len(cmds) = 1)
    /\ HelpCheckFailed => (pc = "done" /\ exitStatus # 0 /\ Len(cmds) = 2)
    /\ (StatusCheckFailed \/ HelpCheckFailed) =>
          /\ <<head, refs, worktree>> = <<startHead, startRefs, StartWorktree>>
          /\ outdirExists = startOutdirExists
          /\ files = {}

\* C6 witness: the repository check passed, the tool check failed, and the
\* process is over.
C6_Witness ==
    /\ pc = "done"
    /\ HelpCheckFailed
    /\ ~StatusCheckFailed

\* C7: when get_branch_commits returns no commits (the log failed, printed
\* nothing, or no line parsed) the process exits non-zero,
\* create_output_directory is never called, the output directory is not
\* created and no commit is processed.
C7_ZeroCommitsAbort ==
    ZeroCommits =>
        /\ Issued("create_output_directory") = {}
        /\ outdirExists = startOutdirExists
        /\ PerCommit = {}
        /\ files = {}
        /\ pc \in {"restore", "done"}
        /\ pc = "done" => exitStatus # 0

\* C7 witness: the log succeeded and printed a line, no line parsed, and the
\* process is over.
C7_Witness ==
    /\ pc = "done"
    /\ ZeroCommits
    /\ \E k \in Issued("git log") : Truthy(cmds[k].out)

\* C8: per-commit failures are not fatal: when the summary is printed every
\* commit had its reset issued, in order and once; the reported count is the
\* number of commits whose tree tool ended with return code 0 (a failed reset
\* or tool is not counted), and with any failure it is below the total.
C8_FailuresNonFatal ==
    summary # <<>> =>
        /\ Len(ResetCmds) = Len(commits)
        /\ \A k \in 1..Len(commits) : ResetCmds[k].arg = commits[k].id
        /\ summary[1] = Cardinality(ToolSuccesses)
        /\ summary[2] = Len(commits)
        /\ Failures # {} => summary[1] < summary[2]
        /\ Cardinality(Failures) + summary[1] = summary[2]

\* C8 witness: the first commit's reset failed, a later commit succeeded,
\* and the summary was printed.
C8_Witness ==
    /\ summary # <<>>
    /\ ResetCmds[1].out = NoneVal
    /\ summary[1] >= 1
    /\ Failures # {}

\* C9 as stated: for every commit counted as successfully processed, the
\* output file NN_<safe description>.txt exists in the output directory.
C9_SuccessHasFile ==
    \A k \in ToolSuccesses : cmds[k].arg \in files

\* C9, amended: every commit counted as successfully processed had the tree
\* tool invoked once, right after the successful reset to that commit, with
\* the output name NN_<safe description>.txt (NN the index of the commit's
\* record padded to two digits), and the tool ended with return code 0; the
\* count of successes is the number of such invocations, and every file of
\* the output directory is one a tool invocation named.
C9_SuccessNamesFile ==
    /\ \A k \in Issued("tree_mine.exe") :
          /\ cmds[k - 1].cmd = "git reset --hard"
          /\ cmds[k - 1].out # NoneVal
          /\ \E j \in 1..Len(commits) :
                /\ commits[j].id = cmds[k - 1].arg
                /\ cmds[k].arg =
                      (IF commits[j].index < 10 THEN <<"0">> ELSE <<>>)
                        \o Decimal(commits[j].index) \o <<"_">>
                        \o Sanitize(commits[j].description)
                        \o <<".", "t", "x", "t">>
          /\ \A j \in Issued("tree_mine.exe") : cmds[j].arg = cmds[k].arg => j = k
    /\ pc \in {"reset", "tree", "summary"} =>
          success_count = Cardinality(ToolSuccesses)
    /\ \A name \in files : \E k \in Issued("tree_mine.exe") : cmds[k].arg = name

\* C9 witness: two commits are counted as successfully processed, the file
\* of one exists and the file of the other does not.
C9_Witness ==
    /\ success_count = 2
    /\ \E k \in ToolSuccesses : cmds[k].arg \in files
    /\ \E k \in ToolSuccesses : cmds[k].arg \notin files

\* C10: for every branch with at least one commit, get_branch_commits returns
\* as many records as the branch has commits, the k-th with index k.
C10_IndexesMatchCommits ==
    \A k \in Issued("git log") :
        (history # <<>> /\ cmds[k].out # NoneVal) =>
            LET cs == get_branch_commits(cmds[k].out)
            IN  /\ Len(cs) = Len(history)
                /\ \A j \in 1..Len(cs) : cs[j].index = j

\* The nine characters that are not allowed in a file name, as the
\* specification lists them.
NineChars == {"<", ">", ":", "\"", "/", "\\", "|", "?", "*"}

\* C11: the output file name is the index padded with zeros to two digits,
\* an underscore, the description with each of the nine characters replaced
\* by one underscore and every other character unchanged, then ".txt"; the
\* records of "Fix bug" at line 1 and "Add: feature/x" at line 2 are named
\* "01_Fix bug.txt" and "02_Add_ feature_x.txt".
C11_FileNameFormat ==
    \A j \in 1..Len(pure.names) :
        LET name == pure.names[j]
            rec == pure.recs[j]
            n == rec.index
            pad == IF n < 100 THEN 2 ELSE 3
            d == rec.description
        IN  /\ Len(name) = pad + 1 + Len(d) + 4
            /\ pad = 2 => /\ name[1] = Digits[(n \div 10) + 1]
                          /\ name[2] = Digits[(n % 10) + 1]
            /\ pad = 3 => /\ name[1] = Digits[(n \div 100) + 1]
                          /\ name[2] = Digits[((n \div 10) % 10) + 1]
                          /\ name[3] = Digits[(n % 10) + 1]
            /\ name[pad + 1] = "_"
            /\ \A i \in 1..Len(d) :
                  name[pad + 1 + i] = IF d[i] \in NineChars THEN "_" ELSE d[i]
            /\ SubSeq(name, Len(name) - 3, Len(name)) = <<".", "t", "x", "t">>
            /\ (n = 1 /\ d = FixBug) =>
                  name = <<"0", "1", "_", "F", "i", "x", " ", "b", "u", "g",
                           ".", "t", "x", "t">>
            /\ (n = 2 /\ d = AddFeature) =>
                  name = <<"0", "2", "_", "A", "d", "d", "_", " ", "f", "e",
                           "a", "t", "u", "r", "e", "_", "x", ".", "t", "x",
                           "t">>

\* C11 witness: "Fix bug" at line 1 and "Add: feature/x" at line 2 have been
\* parsed and named.
C11_Witness ==
    /\ pc = "pure"
    /\ Len(pure.names) = 2
    /\ pure.recs[1].index = 1 /\ pure.recs[1].description = FixBug
    /\ pure.recs[2].index = 2 /\ pure.recs[2].description = AddFeature
    /\ pure.names[2][7] = "_"

\* C12: applying the file-name transform to its own result yields that
\* result unchanged, and the result of one pass holds none of the nine
\* characters.
C12_SanitizeIdempotent ==
    pure.again # <<>> =>
        LET once == pure.recs[1].safe_description
        IN  /\ pure.again[1] = once
            /\ Len(once) = Len(pure.recs[1].description)
            /\ \A i \in 1..Len(once) : once[i] \notin NineChars

\* C12 witness: a description made of a backslash and "<" went through the
\* transform twice.
C12_Witness ==
    /\ pc = "pure"
    /\ pure.again # <<>>
    /\ pure.recs[1].description = <<"\\", "<">>
    /\ pure.again[1] = <<"_", "_">>

\* C13: when the branch yields no commits the driver aborts before any
\* mutation: it issues no git reset --hard and no git checkout, and the
\* checked-out branch and the working tree are what they were, whatever
\* branch state the run started in.
C13_HistoryErrorNoMutation ==
    ZeroCommits =>
        /\ Issued("git reset --hard") = {}
        /\ Issued("git checkout") = {}
        /\ <<head, refs, worktree>> = <<startHead, startRefs, StartWorktree>>

\* C14: commits are processed one at a time, oldest first, each at most
\* once; the reset of a commit comes before its tree-tool invocation and
\* both before the reset of the next commit; the tool runs only after a
\* successful reset to that commit, so whenever it runs with output NN_...
\* the last successful reset was to the commit with index NN, and the
\* working tree is at that commit.
C14_StrictSequencing ==
    /\ Len(ResetCmds) <= Len(commits)
    /\ \A k \in 1..Len(ResetCmds) : ResetCmds[k].arg = commits[k].id
    /\ \A k \in Issued("git reset --hard") :
          k < Len(cmds) =>
             IF cmds[k].out = NoneVal
             THEN cmds[k + 1].cmd \in {"git reset --hard", "git checkout"}
             ELSE cmds[k + 1].cmd \in {"tree_mine.exe", "git checkout"}
    /\ \A k \in Issued("tree_mine.exe") :
          /\ cmds[k - 1].cmd = "git reset --hard"
          /\ cmds[k - 1].out # NoneVal
          /\ \E j \in 1..Len(commits) :
                /\ commits[j].id = cmds[k - 1].arg
                /\ commits[j].index < 100
                /\ SubSeq(cmds[k].arg, 1, 3) =
                      <<Digits[(commits[j].index \div 10) + 1],
                        Digits[(commits[j].index % 10) + 1], "_">>
          /\ k < Len(cmds) => cmds[k + 1].cmd \in {"git reset --hard", "git checkout"}
    /\ pc = "tree" =>
          /\ cmds[Len(cmds)].cmd = "git reset --hard"
          /\ cmds[Len(cmds)].out # NoneVal
          /\ cmds[Len(cmds)].arg = commits[pos].id
          /\ worktree = commits[pos].index
          /\ history[worktree].id = commits[pos].id

\* C14 witness: three commits had their reset issued, the second reset
\* failed, and the tree tool ran for the first and the third.
C14_Witness ==
    /\ Len(ResetCmds) = 3
    /\ ResetCmds[2].out = NoneVal
    /\ Cardinality(Issued("tree_mine.exe")) = 2
    /\ cmds[Len(cmds)].cmd = "tree_mine.exe"

\* C15: a missing output file does not change the outcome: when the tree
\* tool has run for a commit the success counter goes up by one exactly when
\* the tool ended with return code 0, whether or not the file it was to write
\* exists; a failed reset leaves the counter as it is.
C15_MismatchOnlyWarns ==
    [][ /\ (pc = "tree" /\ cmds' # cmds) =>
              LET r == cmds'[Len(cmds')]
              IN  /\ r.cmd = "tree_mine.exe"
                  /\ r.out # NoneVal => success_count' = success_count + 1
                  /\ r.out = NoneVal => success_count' = success_count
                  /\ pos' = pos + 1
        /\ (pc = "reset" /\ cmds' # cmds) =>
              /\ success_count' = success_count
              /\ cmds'[Len(cmds')].out = NoneVal <=> pos' = pos + 1
      ]_vars

\* C15 witness: the summary reports every commit as successfully processed
\* although the output file of one of them does not exist.
C15_Witness ==
    /\ summary # <<>>
    /\ summary[1] = summary[2]
    /\ Failures = {}
    /\ \E k \in ToolSuccesses : cmds[k].arg \notin files

\* C16: the restoration issues exactly one checkout: of the name that
\* git branch --show-current gave before the history was fetched when that
\* name is not empty, of "study" only when no name was captured (an empty
\* result or a failed query); the captured value is read once and does not
\* change during the run.
C16_RestoreTargetChoice ==
    /\ Cardinality(Issued("git branch --show-current")) <= 1
    /\ \A k \in Issued("git branch --show-current") :
          /\ current_branch = cmds[k].out
          /\ current_branch \in {NoneVal, startHead}
          /\ \A j \in Issued("git log") \cup Issued("git checkout") : k < j
          /\ \A j \in Issued("git checkout") :
                cmds[j].arg = IF cmds[k].out = NoneVal \/ Len(cmds[k].out) = 0
                              THEN <<"s", "t", "u", "d", "y">>
                              ELSE cmds[k].out
    /\ (pc = "done" /\ PastValidation) => Cardinality(Issued("git checkout")) = 1
    /\ Cardinality(Issued("git checkout")) <= 1

\* C16 witness: the run started with no branch, the query gave an empty
\* result, the loop ran to its end and "study" was checked out.
C16_Witness ==
    /\ pc = "done"
    /\ summary # <<>>
    /\ startHead = DETACHED
    /\ current_branch = <<>>
    /\ cmds[Len(cmds)].cmd = "git checkout"
    /\ cmds[Len(cmds)].arg = STUDY

\* C17: within one run the output file names of two different commit
\* records are different, also when the two commits have the same
\* description and when there are more than 99 commits.
C17_DistinctFileNames ==
    Len(pure.names) = 2 =>
        /\ pure.recs[1].index # pure.recs[2].index
        /\ pure.names[1] # pure.names[2]

\* C17 witness: the records of lines 1 and 101 have the same description and
\* both are named.
C17_Witness ==
    /\ pc = "pure"
    /\ Len(pure.names) = 2
    /\ pure.recs[1].description = pure.recs[2].description
    /\ pure.recs[1].index + 100 = pure.recs[2].index

\* Commits whose processing is over: the reset failed, or the tool has run.
Processed ==
    Cardinality({k \in Issued("git reset --hard") : cmds[k].out = NoneVal})
        + Cardinality(Issued("tree_mine.exe"))

\* C18: at every point of the loop 0 <= success_count <= commits processed
\* so far <= total commits; success_count never decreases and is the number
\* of processed commits whose reset and tree tool both succeeded; the total
\* of the summary is the number of records get_branch_commits returned.
C18_SuccessCounter ==
    /\ [](/\ 0 <= success_count
          /\ success_count <= Processed
          /\ Processed <= Len(commits)
          /\ pos >= 1 => Processed = pos - 1
          /\ success_count =
                Cardinality({k \in Issued("tree_mine.exe") :
                               /\ cmds[k].out # NoneVal
                               /\ cmds[k - 1].cmd = "git reset --hard"
                               /\ cmds[k - 1].out # NoneVal})
          /\ summary # <<>> =>
                /\ summary[1] = success_count
                /\ summary[2] = Processed
                /\ \A k \in Issued("git log") :
                      summary[2] = Len(get_branch_commits(cmds[k].out)))
    /\ [][success_count' >= success_count]_vars

\* C18 witness: three commits were processed, some but not all of them
\* successfully, and the summary was printed.
C18_Witness ==
    /\ summary # <<>>
    /\ summary[2] = 3
    /\ summary[1] \in {1, 2}
    /\ Processed = 3

==========================================================================
